---- MODULE Spec2Model ----
(***************************************************************************)
(* EngineGAE of mallory (src/gae.go): one Session handled by Serve (a      *)
(* plain request) or by Connect (one CONNECT tunnel).                      *)
(*                                                                         *)
(* Two tasks: the handler goroutine ("M", Connect itself, which becomes    *)
(* the downstream loop) and the upstream goroutine ("U", the go func of    *)
(* line 214).  They share the buffered channel rch, the TLS stream sconn,  *)
(* the backend connection rconn and the Session log.                       *)
(*                                                                         *)
(* Messages are counted, not spelled out in bytes.  Requests are numbered  *)
(* in the order the upstream loop parses them; the backend answers the     *)
(* requests it receives in order, so its j-th response is the response to  *)
(* request j.  One Read of a stream hands the fresh bufio.Reader one or    *)
(* more whole messages; ReadRequest/ReadResponse parse the first, and the  *)
(* rest stay in that reader's buffer, which the next iteration replaces.   *)
(***************************************************************************)
EXTENDS Integers, Sequences, FiniteSets

\* Requests the client sends on one tunnel, at most.
MaxReq == 11

\* rch := make(chan *http.Request, 8)
QueueCap == 8

\* Length of the body of an embedded response in Serve, at most.
MaxBody == 2

\* http.StatusInternalServerError
StatusInternalServerError == 500

VARIABLES
    op,         \* the operation the Session entered: "Serve" | "Connect"
    appSpot,    \* self.Env.AppSpot (only Serve reads it)
    method,     \* r.Method
    urlHost,    \* r.URL.Host, a sequence of characters
    hijackable, \* whether w implements http.Hijacker
    host,       \* host, port of SplitHostPort (character sequences)
    port,
    pcM,        \* position of Connect (the handler goroutine)
    pcU,        \* position of the upstream goroutine
    conn,       \* hijacked client connection: "none" | "open" | "closed"
    rconn,      \* dialed backend connection
    sconn,      \* TLS server connection wrapped around conn
    defers,     \* Connect's stack of deferred Close calls (last is the top)
    bodies,     \* response bodies with a deferred cresp.Body.Close pending
    ack,        \* whether the literal 200 OK was written to conn
    cert,       \* result of Certs.Get: "none" | "ok" | "err"
    hs,         \* result of sconn.Handshake: "none" | "ok" | "err"
    log,        \* records emitted through the Session, in order
    rch,        \* content of the channel
    closed,     \* whether close(rch) ran
    sent,       \* requests the client stream has delivered to reads of sconn
    nread,      \* requests parsed by ReadRequest
    nfwd,       \* requests written to rconn by WriteProxy
    creqU,      \* creq of the upstream goroutine
    ubreak,     \* which break ended the upstream loop
    nresp,      \* responses the backend stream has delivered to reads of rconn
    creq,       \* creq of the downstream loop
    cresp,      \* cresp of the downstream loop
    nwritten,   \* responses written to sconn
    dbreak,     \* which break ended the downstream loop
    posted,     \* the URL Serve posted the request to, <<>> before
    respStatus, \* resp.StatusCode of the relay's answer, 0 before
    cresStatus, \* cres.StatusCode of the embedded response, 0 before
    bodyLen,    \* length of cres.Body
    wHeader,    \* whether CopyHeader(w, cres) ran
    wStatus,    \* the status of w.WriteHeader, 0 before
    wBody,      \* bytes of the body copied to w
    sid,        \* s.ID
    rq,         \* the request ReadRequest returned: its target and its Host
    rqURL,      \* creq.URL; NilURL after a failed url.Parse
    rqSession,  \* the Mallory-Session header of creq, <<>> before
    wire,       \* what WriteProxy wrote to rconn, NoWire before
    pcR,        \* position within one iteration of the upstream loop
    cache,      \* CertPool: host -> serial of the cached certificate, 0 none
    lock,       \* CertPool: host -> the caller inside Get's exclusion, 0 none
    pcG,        \* caller -> its position in Get
    gHost,      \* caller -> the host it asked for
    gCert,      \* caller -> the serial it holds: 0 none, -1 the error
    calls,      \* caller -> the Get calls it has made
    generated,  \* host -> certificates synthesized for it so far
    returned,   \* host -> the serials Get has returned for it
    live,       \* Domain Policy: the snapshot the live pointer names
    building,   \* the snapshot Reload is building
    wanted,     \* the suffix list Reload was given
    pcW,        \* Reload's position
    nReloads,   \* Reload calls so far
    pcP,        \* reader -> its position in Matches
    pHost,      \* reader -> the host it asks about
    pSnap,      \* reader -> the snapshot it loaded
    pIdx,       \* reader -> the suffix it examines next
    pRes,       \* reader -> the value Matches returns
    pSeen       \* reader -> the snapshots live at some time during its call

vars == << op, appSpot, method, urlHost, hijackable, host, port, pcM, pcU,
           conn, rconn, sconn, defers, bodies, ack, cert, hs, log, rch,
           closed, sent, nread, nfwd, creqU, ubreak, nresp, creq, cresp,
           nwritten, dbreak, posted, respStatus, cresStatus, bodyLen,
           wHeader, wStatus, wBody, sid, rq, rqURL, rqSession, wire, pcR,
           cache, lock, pcG, gHost, gCert, calls, generated, returned,
           live, building, wanted, pcW, nReloads,
           pcP, pHost, pSnap, pIdx, pRes, pSeen >>

input   == << op, appSpot, method, urlHost, hijackable >>
\* What Serve writes: its exchange with the relay and the client's response.
srv     == << posted, respStatus, cresStatus, bodyLen, wHeader, wStatus,
              wBody >>
\* One iteration of the upstream loop seen request by request (lines
\* 218-235): the fields of creq and the bytes written to rconn.
rw      == << sid, rq, rqURL, rqSession, wire, pcR >>
\* What neither Serve nor Connect, taken message by message, touches.
\* The Certificate Pool shared by the tunnels, and its callers.
pool    == << cache, lock, pcG, gHost, gCert, calls, generated, returned >>
\* The Domain Policy, its Reload and the readers calling Matches.
policy  == << live, building, wanted, pcW, nReloads,
              pcP, pHost, pSnap, pIdx, pRes, pSeen >>
aux     == << rw, pool, policy >>
\* What no step of Connect touches.
rest    == << srv, aux >>
conns   == << conn, rconn, sconn, defers >>
upvars  == << sent, nread, nfwd, creqU, ubreak >>
dnvars  == << nresp, creq, cresp, nwritten, dbreak, bodies >>
setup   == << host, port, ack, cert, hs >>

NoReq == [id |-> 0, close |-> FALSE]

-----------------------------------------------------------------------------
(* net.SplitHostPort on a host without brackets: the port is what follows  *)
(* the last colon; no colon is "missing port", a colon left in the host is *)
(* "too many colons".                                                      *)

Colons(s) == {i \in 1..Len(s) : s[i] = ":"}

LastColon(s) == CHOOSE i \in Colons(s) : \A j \in Colons(s) : j <= i

SplitHostPort(s) ==
    IF Colons(s) = {}
    THEN [host |-> <<>>, port |-> <<>>, err |-> "missing port in address"]
    ELSE LET i == LastColon(s)
             h == SubSeq(s, 1, i - 1)
             p == SubSeq(s, i + 1, Len(s))
         IN  IF Colons(h) # {}
             THEN [host |-> <<>>, port |-> <<>>,
                   err |-> "too many colons in address"]
             ELSE [host |-> h, port |-> p, err |-> ""]

\* The requests Serve and Connect are called with.
Methods == {"CONNECT", "GET"}

Ops == {"Serve", "Connect"}

AppSpots == {"debug", "app"}

Hosts == { <<"h", ":", "4", "4", "3">>,
           <<"h", ":", "8", "0">>,
           <<"h", ":", "4", "4", "3", "0">>,
           <<"h">>,
           <<"h", ":", ":", "4", "4", "3">> }

-----------------------------------------------------------------------------
\* s.Error(...) and s.Info(...)
Error(msg) == log' = Append(log, [kind |-> "error", msg |-> msg])

Info(msg) == log' = Append(log, [kind |-> "info", msg |-> msg])

Errors == {i \in 1..Len(log) : log[i].kind = "error"}

\* No request on the rewrite path yet.
NoRq == [target |-> <<>>, host |-> <<>>]

\* A nil *url.URL.
NilURL == [nil |-> TRUE, scheme |-> <<>>, host |-> <<>>, path |-> <<>>,
           query |-> <<>>, force |-> FALSE]

\* Nothing written to rconn.
NoWire == [target |-> <<>>, session |-> <<>>]

RewriteIdle ==
    /\ sid = 0
    /\ rq = NoRq
    /\ rqURL = NilURL
    /\ rqSession = <<>>
    /\ wire = NoWire
    /\ pcR = "idle"

NumCallers == 3

MaxGets == 2

\* The tunnels calling s.Certs.Get concurrently.
Callers == 1..NumCallers

PoolHosts == {"a", "b"}

\* NewCertPool: an empty cache, nobody in Get.
PoolIdle ==
    /\ cache = [h \in PoolHosts |-> 0]
    /\ lock = [h \in PoolHosts |-> 0]
    /\ pcG = [c \in Callers |-> "idle"]
    /\ gHost = [c \in Callers |-> ""]
    /\ gCert = [c \in Callers |-> 0]
    /\ calls = [c \in Callers |-> 0]
    /\ generated = [h \in PoolHosts |-> 0]
    /\ returned = [h \in PoolHosts |-> {}]

NumReaders == 2

MaxReloads == 1

\* The connections asking Matches concurrently.
Readers == 1..NumReaders

\* Suffix lists a Reload may be given: "x.c" and "g.c" in both orders, and
\* the empty list.
SuffixLists == { << << "x", ".", "c" >>, << "g", ".", "c" >> >>,
                 << << "g", ".", "c" >>, << "x", ".", "c" >> >>,
                 << >> }

\* Hosts asked about: "W.G.c", a subdomain of "g.c" in another case, and
\* "ng.c", which only ends with the characters of "g.c".
PolicyHosts == { << "W", ".", "G", ".", "c" >>,
                 << "n", "g", ".", "c" >> }

\* The policy with one snapshot published, no Reload and no Matches running.
PolicyIdle ==
    /\ live = << << "x", ".", "c" >>, << "g", ".", "c" >> >>
    /\ building = << >>
    /\ wanted = << >>
    /\ pcW = "idle"
    /\ nReloads = 0
    /\ pcP = [r \in Readers |-> "idle"]
    /\ pHost = [r \in Readers |-> << >>]
    /\ pSnap = [r \in Readers |-> << >>]
    /\ pIdx = [r \in Readers |-> 0]
    /\ pRes = [r \in Readers |-> FALSE]
    /\ pSeen = [r \in Readers |-> {}]

\* A Session on which nothing has run yet.
Fresh ==
    /\ port = <<>>
    /\ pcU = "idle"
    /\ conn = "none"
    /\ rconn = "none"
    /\ sconn = "none"
    /\ defers = <<>>
    /\ bodies = 0
    /\ ack = FALSE
    /\ cert = "none"
    /\ hs = "none"
    /\ log = <<>>
    /\ rch = <<>>
    /\ closed = FALSE
    /\ sent = 0
    /\ nread = 0
    /\ nfwd = 0
    /\ creqU = NoReq
    /\ ubreak = "none"
    /\ nresp = 0
    /\ creq = NoReq
    /\ cresp = NoReq
    /\ nwritten = 0
    /\ dbreak = "none"
    /\ posted = <<>>
    /\ respStatus = 0
    /\ cresStatus = 0
    /\ bodyLen = 0
    /\ wHeader = FALSE
    /\ wStatus = 0
    /\ wBody = 0

Init ==
    /\ op \in Ops
    /\ appSpot \in IF op = "Serve" THEN AppSpots ELSE {"app"}
    /\ method \in Methods
    /\ urlHost \in Hosts
    /\ hijackable \in BOOLEAN
    /\ host = <<>>
    /\ pcM = IF op = "Connect" THEN "method" ELSE "serve"
    /\ Fresh
    /\ RewriteIdle
    /\ PoolIdle
    /\ PolicyIdle

-----------------------------------------------------------------------------
(* Connect up to the relay: lines 142-208.                                 *)

\* if r.Method != "CONNECT" { s.Error; return }
CheckMethod ==
    /\ pcM = "method"
    /\ IF method # "CONNECT"
       THEN /\ Error("this function can only handle CONNECT method")
            /\ pcM' = "return"
       ELSE /\ pcM' = "split"
            /\ UNCHANGED log
    /\ UNCHANGED << rest, input, setup, conns, pcU, rch, closed, upvars, dnvars >>

\* host, port, err := net.SplitHostPort(r.URL.Host)
SplitHost ==
    /\ pcM = "split"
    /\ LET r == SplitHostPort(urlHost)
       IN  IF r.err # ""
           THEN /\ Error("SplitHostPort")
                /\ pcM' = "return"
                /\ UNCHANGED << host, port >>
           ELSE /\ host' = r.host
                /\ port' = r.port
                /\ pcM' = "port"
                /\ UNCHANGED log
    /\ UNCHANGED << rest, input, ack, cert, hs, conns, pcU, rch, closed, upvars,
                    dnvars >>

\* Mutant of PortSupported: the port test accepts every port.
PortSupportedAny(p) == TRUE

\* if port != "443"
PortSupported(p) == p = <<"4", "4", "3">>

CheckPort ==
    /\ pcM = "port"
    /\ IF ~PortSupported(port)
       THEN /\ Error("unsupported CONNECT port")
            /\ pcM' = "return"
       ELSE /\ pcM' = "hijacker"
            /\ UNCHANGED log
    /\ UNCHANGED << rest, input, setup, conns, pcU, rch, closed, upvars, dnvars >>

\* hij, ok := w.(http.Hijacker)
AssertHijacker ==
    /\ pcM = "hijacker"
    /\ IF ~hijackable
       THEN /\ Error("Server does not support Hijacker")
            /\ pcM' = "return"
       ELSE /\ pcM' = "hijack"
            /\ UNCHANGED log
    /\ UNCHANGED << rest, input, setup, conns, pcU, rch, closed, upvars, dnvars >>

\* conn, _, err := hij.Hijack(); defer conn.Close()
Hijack ==
    /\ pcM = "hijack"
    /\ \/ /\ Error("Hijack")
          /\ pcM' = "return"
          /\ UNCHANGED << conn, defers >>
       \/ /\ conn' = "open"
          /\ defers' = Append(defers, "conn")
          /\ pcM' = "dial"
          /\ UNCHANGED log
    /\ UNCHANGED << rest, input, setup, rconn, sconn, pcU, rch, closed, upvars,
                    dnvars >>

\* Mutant of Dial: a failed dial is reported but does not return.
DialIgnoreErr ==
    /\ pcM = "dial"
    /\ \/ /\ Error("Dial")
          /\ pcM' = "ack"
          /\ UNCHANGED << rconn, defers >>
       \/ /\ rconn' = "open"
          /\ defers' = Append(defers, "rconn")
          /\ pcM' = "ack"
          /\ UNCHANGED log
    /\ UNCHANGED << rest, input, setup, conn, sconn, pcU, rch, closed, upvars,
                    dnvars >>

\* rconn, err := net.Dial("tcp", self.Env.Addr); defer rconn.Close()
Dial ==
    /\ pcM = "dial"
    /\ \/ /\ Error("Dial")
          /\ pcM' = "return"
          /\ UNCHANGED << rconn, defers >>
       \/ /\ rconn' = "open"
          /\ defers' = Append(defers, "rconn")
          /\ pcM' = "ack"
          /\ UNCHANGED log
    /\ UNCHANGED << rest, input, setup, conn, sconn, pcU, rch, closed, upvars,
                    dnvars >>

\* conn.Write([]byte("HTTP/1.1 200 OK\r\n\r\n")), its result ignored
WriteOK ==
    /\ pcM = "ack"
    /\ ack' = TRUE
    /\ pcM' = "cert"
    /\ UNCHANGED << rest, input, host, port, cert, hs, conns, log, pcU, rch, closed,
                    upvars, dnvars >>

\* Mutant of GetCert: after a Get error the handler reports it and goes on
\* to the handshake.
GetCertSubstitute ==
    /\ pcM = "cert"
    /\ \/ /\ cert' = "err"
          /\ Error("CertPool.Get")
          /\ pcM' = "tls"
       \/ /\ cert' = "ok"
          /\ pcM' = "tls"
          /\ UNCHANGED log
    /\ UNCHANGED << rest, input, host, port, ack, hs, conns, pcU, rch, closed,
                    upvars, dnvars >>

\* cert, err := self.Certs.Get(host)
GetCert ==
    /\ pcM = "cert"
    /\ \/ /\ cert' = "err"
          /\ Error("CertPool.Get")
          /\ pcM' = "return"
       \/ /\ cert' = "ok"
          /\ pcM' = "tls"
          /\ UNCHANGED log
    /\ UNCHANGED << rest, input, host, port, ack, hs, conns, pcU, rch, closed,
                    upvars, dnvars >>

\* sconn := tls.Server(conn, config); defer sconn.Close()
WrapTLS ==
    /\ pcM = "tls"
    /\ sconn' = "open"
    /\ defers' = Append(defers, "sconn")
    /\ pcM' = "handshake"
    /\ UNCHANGED << rest, input, setup, conn, rconn, log, pcU, rch, closed, upvars,
                    dnvars >>

\* Mutant of Handshake: a failed handshake is reported but does not return.
HandshakeIgnoreErr ==
    /\ pcM = "handshake"
    /\ \/ /\ hs' = "err"
          /\ Error("Handshake")
          /\ pcM' = "spawn"
       \/ /\ hs' = "ok"
          /\ pcM' = "spawn"
          /\ UNCHANGED log
    /\ UNCHANGED << rest, input, host, port, ack, cert, conns, pcU, rch, closed,
                    upvars, dnvars >>

\* if err := sconn.Handshake(); err != nil { s.Error; return }
Handshake ==
    /\ pcM = "handshake"
    /\ \/ /\ hs' = "err"
          /\ Error("Handshake")
          /\ pcM' = "return"
       \/ /\ hs' = "ok"
          /\ pcM' = "spawn"
          /\ UNCHANGED log
    /\ UNCHANGED << rest, input, host, port, ack, cert, conns, pcU, rch, closed,
                    upvars, dnvars >>

\* rch := make(chan *http.Request, 8); go func() { ... }()
Spawn ==
    /\ pcM = "spawn"
    /\ pcU' = "read"
    /\ pcM' = "recv"
    /\ UNCHANGED << rest, input, setup, conns, log, rch, closed, upvars, dnvars >>

-----------------------------------------------------------------------------
(* The upstream goroutine: lines 214-245.                                  *)

\* break, then the deferred close(rch)
UpBreak(why) ==
    /\ pcU' = "exit"
    /\ ubreak' = why
    /\ closed' = TRUE

\* How many whole requests one Read of sconn may hand to the bufio.Reader
\* made for this iteration.
ReqBatch == 1..(MaxReq - sent)

\* creq, err := http.ReadRequest(bufio.NewReader(sconn))
\* The outcomes: a request; io.EOF (the client closed its side); an error of
\* the stream or of the parse; the error of a read on the sconn that Connect
\* has closed ("use of closed network connection", not io.EOF).
ReadRequest ==
    /\ pcU = "read"
    /\ \/ /\ sconn = "open"
          /\ \E k \in ReqBatch, c \in BOOLEAN :
                /\ sent' = sent + k
                /\ nread' = nread + 1
                /\ creqU' = [id |-> nread + 1, close |-> c]
          /\ pcU' = "write"
          /\ UNCHANGED << log, closed, ubreak >>
       \/ /\ sconn = "open"
          /\ UpBreak("eof")
          /\ UNCHANGED << log, sent, nread, creqU >>
       \/ /\ sconn = "open"
          /\ Error("ReadRequest")
          /\ UpBreak("readerr")
          /\ UNCHANGED << sent, nread, creqU >>
       \/ /\ sconn = "closed"
          /\ Error("ReadRequest")
          /\ UpBreak("readclosed")
          /\ UNCHANGED << sent, nread, creqU >>
    /\ UNCHANGED << rest, input, setup, conns, pcM, rch, nfwd, dnvars >>

\* Mutant of WriteProxy: after a failed write the request is still sent on
\* the channel.
WriteProxyThenSend ==
    /\ pcU = "write"
    /\ \/ /\ rconn = "open"
          /\ nfwd' = nfwd + 1
          /\ UNCHANGED log
       \/ /\ Error("WriteProxy")
          /\ UNCHANGED nfwd
    /\ pcU' = "send"
    /\ UNCHANGED << rest, input, setup, conns, pcM, rch, closed, ubreak, sent,
                    nread, creqU, dnvars >>

\* err = creq.WriteProxy(rconn)
\* The outcomes: written; an error of the backend connection; the error of a
\* write on the rconn that Connect has closed.
WriteProxy ==
    /\ pcU = "write"
    /\ \/ /\ rconn = "open"
          /\ nfwd' = nfwd + 1
          /\ pcU' = "send"
          /\ UNCHANGED << log, closed, ubreak >>
       \/ /\ rconn = "open"
          /\ Error("WriteProxy")
          /\ UpBreak("writeerr")
          /\ UNCHANGED nfwd
       \/ /\ rconn = "closed"
          /\ Error("WriteProxy")
          /\ UpBreak("writeclosed")
          /\ UNCHANGED nfwd
    /\ UNCHANGED << rest, input, setup, conns, pcM, rch, sent, nread, creqU,
                    dnvars >>

\* Mutant of CanSend: an unbounded channel.
CanSendAlways(q) == TRUE

\* A send on the buffered channel proceeds when the buffer has room.
CanSend(q) == Len(q) < QueueCap

\* Mutant of Send: the loop goes on after a request declaring Close.
SendNoBreak ==
    /\ pcU = "send"
    /\ Len(rch) < QueueCap
    /\ rch' = Append(rch, creqU)
    /\ pcU' = "read"
    /\ UNCHANGED << rest, input, setup, conns, pcM, log, closed, ubreak, sent,
                    nread, nfwd, creqU, dnvars >>

\* rch <- creq; if creq.Close { break }
Send ==
    /\ pcU = "send"
    /\ CanSend(rch)
    /\ rch' = Append(rch, creqU)
    /\ IF creqU.close
       THEN UpBreak("reqclose")
       ELSE /\ pcU' = "read"
            /\ UNCHANGED << closed, ubreak >>
    /\ UNCHANGED << rest, input, setup, conns, pcM, log, sent, nread, nfwd, creqU,
                    dnvars >>

-----------------------------------------------------------------------------
(* The downstream loop: lines 247-277.                                     *)

\* Mutant of RecvClosed: the closure is seen while requests are still queued.
RecvClosedEarly(q, c) == c

\* creq, ok := <-rch yields ok = false once the channel is closed and empty.
RecvClosed(q, c) == c /\ q = <<>>

Recv ==
    /\ pcM = "recv"
    /\ \/ /\ rch # <<>>
          /\ creq' = Head(rch)
          /\ rch' = Tail(rch)
          /\ pcM' = "readresp"
          /\ UNCHANGED dbreak
       \/ /\ RecvClosed(rch, closed)
          /\ dbreak' = "closed"
          /\ pcM' = "info"
          /\ UNCHANGED << creq, rch >>
    /\ UNCHANGED << rest, input, setup, conns, pcU, log, closed, upvars, nresp,
                    cresp, nwritten, bodies >>

\* How many whole responses one Read of rconn may hand to the bufio.Reader
\* made for this iteration: the backend has answered at most what it got.
RespBatch == 1..(nfwd - nresp)

\* cresp, err := http.ReadResponse(bufio.NewReader(rconn), creq)
\* defer cresp.Body.Close()
ReadResponse ==
    /\ pcM = "readresp"
    /\ \/ /\ \E k \in RespBatch, c \in BOOLEAN :
                /\ nresp' = nresp + k
                /\ cresp' = [id |-> nresp + 1, close |-> c]
          /\ bodies' = bodies + 1
          /\ pcM' = "writeresp"
          /\ UNCHANGED << log, dbreak >>
       \/ /\ Error("ReadResponse")
          /\ dbreak' = "readerr"
          /\ pcM' = "info"
          /\ UNCHANGED << nresp, cresp, bodies >>
    /\ UNCHANGED << rest, input, setup, conns, pcU, rch, closed, upvars, creq,
                    nwritten >>

\* err = cresp.Write(sconn); if cresp.Close { break }
WriteResponse ==
    /\ pcM = "writeresp"
    /\ \/ /\ nwritten' = nwritten + 1
          /\ IF cresp.close
             THEN /\ dbreak' = "respclose"
                  /\ pcM' = "info"
             ELSE /\ pcM' = "recv"
                  /\ UNCHANGED dbreak
          /\ UNCHANGED log
       \/ /\ dbreak' = "writeeof"
          /\ pcM' = "info"
          /\ UNCHANGED << log, nwritten >>
       \/ /\ Error("Write")
          /\ dbreak' = "writeerr"
          /\ pcM' = "info"
          /\ UNCHANGED nwritten
    /\ UNCHANGED << rest, input, setup, conns, pcU, rch, closed, upvars, nresp,
                    creq, cresp, bodies >>

\* s.Info("CLOSE %s", ...)
LogClose ==
    /\ pcM = "info"
    /\ Info("CLOSE")
    /\ pcM' = "return"
    /\ UNCHANGED << rest, input, setup, conns, pcU, rch, closed, upvars, dnvars >>

-----------------------------------------------------------------------------
(* Return from Serve or Connect: the deferred calls run last-registered    *)
(* first; the response bodies before sconn, rconn, conn.                   *)
(* tls.Conn.Close closes the connection it wraps.                          *)

Top(s) == s[Len(s)]

Pop(s) == SubSeq(s, 1, Len(s) - 1)

\* Mutant of Deferred: the Close calls are not deferred.
DeferredNone == <<>>

\* The deferred Close calls still to run when Connect returns.
Deferred == defers

Return ==
    /\ pcM = "return"
    /\ IF bodies > 0
       THEN /\ bodies' = 0
            /\ UNCHANGED << conns, pcM >>
       ELSE IF Deferred # <<>>
       THEN /\ defers' = Pop(defers)
            /\ sconn' = IF Top(defers) = "sconn" THEN "closed" ELSE sconn
            /\ rconn' = IF Top(defers) = "rconn" THEN "closed" ELSE rconn
            /\ conn' = IF Top(defers) \in {"sconn", "conn"}
                       THEN "closed" ELSE conn
            /\ UNCHANGED << bodies, pcM >>
       ELSE /\ pcM' = "done"
            /\ UNCHANGED << conns, bodies >>
    /\ UNCHANGED << rest, input, setup, pcU, log, rch, closed, upvars, nresp, creq,
                    cresp, nwritten, dbreak >>

-----------------------------------------------------------------------------
(* Serve: lines 60-117.                                                    *)

\* What a step of Serve leaves alone of the tunnel.
tunnel == << setup, conns, pcU, rch, closed, upvars, nresp, creq, cresp,
             nwritten, dbreak >>

Statuses == {200, 404, StatusInternalServerError}

\* url := fmt.Sprintf("https://%s.appspot.com/http", ...), or the debug URL
PostURL(app) ==
    IF app = "debug"
    THEN << "http://localhost:8080/http" >>
    ELSE << "https://", app, ".appspot.com/http" >>

\* Mutant of ServeMethod: no test of the method.
ServeMethodAny ==
    /\ pcM = "serve"
    /\ pcM' = "s_write"
    /\ UNCHANGED << aux, input, tunnel, bodies, srv, log >>

\* if r.Method == "CONNECT" { s.Error; return }
ServeMethod ==
    /\ pcM = "serve"
    /\ IF method = "CONNECT"
       THEN /\ Error("this function can not handle CONNECT method")
            /\ pcM' = "return"
       ELSE /\ pcM' = "s_write"
            /\ UNCHANGED log
    /\ UNCHANGED << aux, input, tunnel, bodies, srv >>

\* if err := r.WriteProxy(&buf); err != nil { s.Error; return }
ServeWriteProxy ==
    /\ pcM = "s_write"
    /\ \/ /\ Error("WriteProxy")
          /\ pcM' = "return"
       \/ /\ pcM' = "s_post"
          /\ UNCHANGED log
    /\ UNCHANGED << aux, input, tunnel, bodies, srv >>

\* resp, err := http.Post(url, "application/data", &buf)
\* defer resp.Body.Close()
ServePost ==
    /\ pcM = "s_post"
    /\ posted' = PostURL(appSpot)
    /\ \/ /\ Error("Post")
          /\ pcM' = "return"
          /\ UNCHANGED << respStatus, bodies >>
       \/ /\ respStatus' \in Statuses
          /\ bodies' = bodies + 1
          /\ pcM' = "s_status"
          /\ UNCHANGED log
    /\ UNCHANGED << aux, input, tunnel, cresStatus, bodyLen, wHeader, wStatus,
                    wBody >>

\* Mutant of ServeStatus: the relay's 500 is not tested.
ServeStatusIgnored ==
    /\ pcM = "s_status"
    /\ pcM' = "s_read"
    /\ UNCHANGED << aux, input, tunnel, bodies, srv, log >>

\* if resp.StatusCode == http.StatusInternalServerError { s.Error; return }
ServeStatus ==
    /\ pcM = "s_status"
    /\ IF respStatus = StatusInternalServerError
       THEN /\ Error("Status")
            /\ pcM' = "return"
       ELSE /\ pcM' = "s_read"
            /\ UNCHANGED log
    /\ UNCHANGED << aux, input, tunnel, bodies, srv >>

\* cres, err := http.ReadResponse(bufio.NewReader(resp.Body), r)
\* defer cres.Body.Close()
ServeReadResponse ==
    /\ pcM = "s_read"
    /\ \/ /\ Error("ReadResponse")
          /\ pcM' = "return"
          /\ UNCHANGED << cresStatus, bodyLen, bodies >>
       \/ /\ cresStatus' \in Statuses
          /\ bodyLen' \in 0..MaxBody
          /\ bodies' = bodies + 1
          /\ pcM' = "s_header"
          /\ UNCHANGED log
    /\ UNCHANGED << aux, input, tunnel, posted, respStatus, wHeader, wStatus,
                    wBody >>

\* CopyHeader(w, cres); w.WriteHeader(cres.StatusCode)
ServeHeader ==
    /\ pcM = "s_header"
    /\ wHeader' = TRUE
    /\ wStatus' = cresStatus
    /\ pcM' = "s_copy"
    /\ UNCHANGED << aux, input, tunnel, bodies, log, posted, respStatus,
                    cresStatus, bodyLen, wBody >>

\* _, err = io.Copy(w, cres.Body): the whole body, or an error after n bytes
ServeCopy ==
    /\ pcM = "s_copy"
    /\ \/ /\ wBody' = bodyLen
          /\ pcM' = "s_info"
          /\ UNCHANGED log
       \/ /\ \E n \in 0..bodyLen : wBody' = n
          /\ Error("Copy")
          /\ pcM' = "return"
    /\ UNCHANGED << aux, input, tunnel, bodies, posted, respStatus, cresStatus,
                    bodyLen, wHeader, wStatus >>

\* s.Info("RESPONSE %s %s", resp.Status, d)
ServeInfo ==
    /\ pcM = "s_info"
    /\ Info("RESPONSE")
    /\ pcM' = "return"
    /\ UNCHANGED << aux, input, tunnel, bodies, srv >>

-----------------------------------------------------------------------------
Next ==
    \/ CheckMethod
    \/ SplitHost
    \/ CheckPort
    \/ AssertHijacker
    \/ Hijack
    \/ Dial
    \/ WriteOK
    \/ GetCert
    \/ WrapTLS
    \/ Handshake
    \/ Spawn
    \/ ReadRequest
    \/ WriteProxy
    \/ Send
    \/ Recv
    \/ ReadResponse
    \/ WriteResponse
    \/ LogClose
    \/ Return
    \/ ServeMethod
    \/ ServeWriteProxy
    \/ ServePost
    \/ ServeStatus
    \/ ServeReadResponse
    \/ ServeHeader
    \/ ServeCopy
    \/ ServeInfo

Spec == Init /\ [][Next]_vars

-----------------------------------------------------------------------------
(* One iteration of the upstream loop, request by request: lines 218-235.  *)
(* Strings are sequences of characters; "https://" is one element.         *)

MaxSid == 12

DigitChar == << "0", "1", "2", "3", "4", "5", "6", "7", "8", "9" >>

\* strconv.FormatInt(n, 10) for n >= 0
RECURSIVE Dec(_)
Dec(n) ==
    IF n < 10
    THEN << DigitChar[n + 1] >>
    ELSE Dec(n \div 10) \o << DigitChar[(n % 10) + 1] >>

\* host as Connect got it from net.SplitHostPort: a name, and the IPv6
\* literals of "[::1]:443" and "[::a]:443" with their brackets removed.
RwHosts == { << "h" >>, << ":", ":", "1" >>, << ":", ":", "a" >> }

\* Request targets in origin form, as the client sends them in the tunnel.
Targets == { << "/" >>,
             << "/", "a" >>,
             << "/", "a", "?" >>,
             << "/", "a", "?", "q" >>,
             << "/", "?", "q", "?" >> }

\* The Host header of a request: absent (HTTP/1.0), the CONNECT host, another.
HostHeaders == { << >>, << "h" >>, << "g" >> }

Marks(s) == {i \in 1..Len(s) : s[i] = "?"}

FirstOf(S) == CHOOSE i \in S : \A j \in S : i <= j

\* url.parse's handling of the query: a lone trailing "?" sets ForceQuery,
\* otherwise the string is cut at its first "?".
CutQuery(s) ==
    IF Marks(s) = {}
    THEN [rest |-> s, query |-> << >>, force |-> FALSE]
    ELSE IF Marks(s) = {Len(s)}
    THEN [rest |-> SubSeq(s, 1, Len(s) - 1), query |-> << >>, force |-> TRUE]
    ELSE LET i == FirstOf(Marks(s))
         IN  [rest |-> SubSeq(s, 1, i - 1),
              query |-> SubSeq(s, i + 1, Len(s)), force |-> FALSE]

\* url.ParseRequestURI of an origin-form target (http.ReadRequest).
ParseRequestURI(t) ==
    LET c == CutQuery(t)
    IN  [nil |-> FALSE, scheme |-> << >>, host |-> << >>, path |-> c.rest,
         query |-> c.query, force |-> c.force]

\* url.parseHost: what follows the last colon must be a port number.
ValidHost(h) ==
    \/ Colons(h) = {}
    \/ \A i \in (LastColon(h) + 1)..Len(h) :
           \E d \in 1..Len(DigitChar) : h[i] = DigitChar[d]

\* url.Parse of a string starting with a scheme and "//": the authority
\* runs up to the first "/", the path is what follows.
ParseURL(s) ==
    LET c      == CutQuery(Tail(s))
        slash  == {i \in 1..Len(c.rest) : c.rest[i] = "/"}
        cut    == IF slash = {} THEN Len(c.rest) + 1 ELSE FirstOf(slash)
        auth   == SubSeq(c.rest, 1, cut - 1)
    IN  IF ~ValidHost(auth)
        THEN NilURL
        ELSE [nil |-> FALSE, scheme |-> << Head(s) >>, host |-> auth,
              path |-> SubSeq(c.rest, cut, Len(c.rest)),
              query |-> c.query, force |-> c.force]

QueryPart(u) ==
    IF u.force \/ u.query # << >> THEN << "?" >> \o u.query ELSE << >>

\* (*URL).String
String(u) ==
    (IF u.scheme # << >> THEN u.scheme \o u.host ELSE << >>)
        \o u.path \o QueryPart(u)

\* (*URL).RequestURI
RequestURI(u) ==
    (IF u.path = << >> THEN << "/" >> ELSE u.path) \o QueryPart(u)

\* What the rewrite path leaves alone.
session == << input, tunnel, bodies, srv, pcM >>

RwReadRequest ==
    /\ pcR = "idle"
    /\ \/ \E t \in Targets, hh \in HostHeaders :
            /\ rq' = [target |-> t, host |-> hh]
            /\ rqURL' = ParseRequestURI(t)
            /\ pcR' = "rewrite"
            /\ UNCHANGED log
       \/ /\ Error("ReadRequest")
          /\ pcR' = "break"
          /\ UNCHANGED << rq, rqURL >>
    /\ UNCHANGED << session, pool, policy, sid, rqSession, wire >>

\* creq.URL, err = url.Parse("https://" + host + creq.URL.String());
\* err is overwritten unread, a failed Parse leaves creq.URL nil.
RwRewrite ==
    /\ pcR = "rewrite"
    /\ rqURL' = ParseURL(<< "https://" >> \o host \o String(rqURL))
    /\ pcR' = "tag"
    /\ UNCHANGED << session, pool, policy, log, sid, rq, rqSession, wire >>

RwTag ==
    /\ pcR = "tag"
    /\ rqSession' = Dec(sid)
    /\ pcR' = "write"
    /\ UNCHANGED << session, pool, policy, log, sid, rq, rqURL, wire >>

\* creq.WriteProxy(rconn): the request line is the scheme, "://", the
\* request's Host (r.Host) or, when that is empty, r.URL.Host, and
\* r.URL.RequestURI().
RwWriteProxy ==
    /\ pcR = "write"
    /\ \/ /\ rqURL.nil
          /\ rq.host = << >>
          /\ Error("WriteProxy")
          /\ pcR' = "break"
          /\ UNCHANGED wire
       \/ /\ rqURL.nil
          /\ rq.host # << >>
          /\ pcR' = "panic"
          /\ UNCHANGED << log, wire >>
       \/ /\ ~rqURL.nil
          /\ wire' = [target |-> rqURL.scheme
                                 \o (IF rq.host # << >> THEN rq.host
                                                        ELSE rqURL.host)
                                 \o RequestURI(rqURL),
                      session |-> rqSession]
          /\ pcR' = "written"
          /\ UNCHANGED log
       \/ /\ ~rqURL.nil
          /\ Error("WriteProxy")
          /\ pcR' = "break"
          /\ UNCHANGED wire
    /\ UNCHANGED << session, pool, policy, sid, rq, rqURL, rqSession >>

\* The next iteration of the for loop declares a new creq.
RwLoop ==
    /\ pcR = "written"
    /\ rq' = NoRq
    /\ rqURL' = NilURL
    /\ rqSession' = << >>
    /\ wire' = NoWire
    /\ pcR' = "idle"
    /\ UNCHANGED << session, pool, policy, log, sid >>

InitRewrite ==
    /\ op = "Connect"
    /\ appSpot = "app"
    /\ method = "CONNECT"
    /\ urlHost = << "h", ":", "4", "4", "3" >>
    /\ hijackable = TRUE
    /\ host \in RwHosts
    /\ pcM = "recv"
    /\ Fresh
    /\ sid \in 0..MaxSid
    /\ rq = NoRq
    /\ rqURL = NilURL
    /\ rqSession = << >>
    /\ wire = NoWire
    /\ pcR = "idle"
    /\ PoolIdle
    /\ PolicyIdle

NextRewrite ==
    \/ RwReadRequest
    \/ RwRewrite
    \/ RwTag
    \/ RwWriteProxy
    \/ RwLoop

SpecRewrite == InitRewrite /\ [][NextRewrite]_vars

-----------------------------------------------------------------------------
(* The Certificate Pool behind s.Certs.Get(host), line 187: Get looks the  *)
(* host up and, on a miss, synthesizes, persists and inserts a certificate, *)
(* the check-then-generate sequence under the host's mutual exclusion.      *)

\* What the pool's steps leave alone.
tunnels == << session, log, rw >>

\* Positions between taking and releasing the host's exclusion.
Critical == {"check", "generate", "insert", "unlock"}

\* A tunnel calls Get(h).
GetCall(c) ==
    /\ pcG[c] = "idle"
    /\ calls[c] < MaxGets
    /\ \E h \in PoolHosts : gHost' = [gHost EXCEPT ![c] = h]
    /\ calls' = [calls EXCEPT ![c] = @ + 1]
    /\ pcG' = [pcG EXCEPT ![c] = "lock"]
    /\ UNCHANGED << tunnels, policy, cache, lock, gCert, generated, returned >>

\* Get entering the check-then-generate sequence without the exclusion.
GetLockNone(c) ==
    /\ pcG[c] = "lock"
    /\ lock' = [lock EXCEPT ![gHost[c]] = c]
    /\ pcG' = [pcG EXCEPT ![c] = "check"]
    /\ UNCHANGED << tunnels, policy, cache, gHost, gCert, calls, generated, returned >>

\* Enter the exclusion of the host asked for.
GetLock(c) ==
    /\ pcG[c] = "lock"
    /\ lock[gHost[c]] = 0
    /\ lock' = [lock EXCEPT ![gHost[c]] = c]
    /\ pcG' = [pcG EXCEPT ![c] = "check"]
    /\ UNCHANGED << tunnels, policy, cache, gHost, gCert, calls, generated, returned >>

\* Look the host up: a hit is the answer, a miss goes on to synthesize.
GetCheck(c) ==
    /\ pcG[c] = "check"
    /\ IF cache[gHost[c]] # 0
       THEN /\ gCert' = [gCert EXCEPT ![c] = cache[gHost[c]]]
            /\ pcG' = [pcG EXCEPT ![c] = "unlock"]
       ELSE /\ pcG' = [pcG EXCEPT ![c] = "generate"]
            /\ UNCHANGED gCert
    /\ UNCHANGED << tunnels, policy, cache, lock, gHost, calls, generated, returned >>

\* Synthesize and sign a leaf certificate; signing or persisting may fail.
GetGenerate(c) ==
    /\ pcG[c] = "generate"
    /\ \/ /\ generated' = [generated EXCEPT ![gHost[c]] = @ + 1]
          /\ gCert' = [gCert EXCEPT ![c] = generated[gHost[c]] + 1]
          /\ pcG' = [pcG EXCEPT ![c] = "insert"]
       \/ /\ gCert' = [gCert EXCEPT ![c] = -1]
          /\ pcG' = [pcG EXCEPT ![c] = "unlock"]
          /\ UNCHANGED generated
    /\ UNCHANGED << tunnels, policy, cache, lock, gHost, calls, returned >>

\* Insert the new certificate into the cache.
GetInsert(c) ==
    /\ pcG[c] = "insert"
    /\ cache' = [cache EXCEPT ![gHost[c]] = gCert[c]]
    /\ pcG' = [pcG EXCEPT ![c] = "unlock"]
    /\ UNCHANGED << tunnels, policy, lock, gHost, gCert, calls, generated, returned >>

\* Leave the exclusion and return the certificate or the error.
GetUnlock(c) ==
    /\ pcG[c] = "unlock"
    /\ lock' = [lock EXCEPT ![gHost[c]] = IF @ = c THEN 0 ELSE @]
    /\ returned' = [returned EXCEPT ![gHost[c]] =
                       IF gCert[c] > 0 THEN @ \cup {gCert[c]} ELSE @]
    /\ gHost' = [gHost EXCEPT ![c] = ""]
    /\ gCert' = [gCert EXCEPT ![c] = 0]
    /\ pcG' = [pcG EXCEPT ![c] = "idle"]
    /\ UNCHANGED << tunnels, policy, cache, calls, generated >>

InitCertPool ==
    /\ op = "Connect"
    /\ appSpot = "app"
    /\ method = "CONNECT"
    /\ urlHost = << "h", ":", "4", "4", "3" >>
    /\ hijackable = TRUE
    /\ host = << "h" >>
    /\ pcM = "cert"
    /\ Fresh
    /\ RewriteIdle
    /\ PoolIdle
    /\ PolicyIdle

NextCertPool ==
    \E c \in Callers :
        \/ GetCall(c)
        \/ GetLock(c)
        \/ GetCheck(c)
        \/ GetGenerate(c)
        \/ GetInsert(c)
        \/ GetUnlock(c)

SpecCertPool == InitCertPool /\ [][NextCertPool]_vars

-----------------------------------------------------------------------------
(* The Domain Policy: Matches(host) against the live snapshot of suffixes,  *)
(* Reload building a new snapshot and publishing it by one pointer swap.    *)

\* strings.ToLower on one character.
Lower(ch) == IF ch = "G" THEN "g" ELSE IF ch = "W" THEN "w" ELSE ch

ToLower(s) == [i \in 1..Len(s) |-> Lower(s[i])]

HasSuffix(s, t) ==
    /\ Len(t) <= Len(s)
    /\ SubSeq(s, Len(s) - Len(t) + 1, Len(s)) = t

\* host equals the suffix or is a proper subdomain of it.
SuffixMatch(h, suffix) ==
    \/ ToLower(h) = ToLower(suffix)
    \/ HasSuffix(ToLower(h), << "." >> \o ToLower(suffix))

\* Matches(host) against one whole snapshot.
MatchesIn(snap, h) == \E i \in 1..Len(snap) : SuffixMatch(h, snap[i])

\* What the policy's steps leave alone.
others == << tunnels, pool >>

\* A connection calls Matches(h).
MatchCall(r) ==
    /\ pcP[r] \in {"idle", "done"}
    /\ \E h \in PolicyHosts : pHost' = [pHost EXCEPT ![r] = h]
    /\ pcP' = [pcP EXCEPT ![r] = "load"]
    /\ pSeen' = [pSeen EXCEPT ![r] = {live}]
    /\ pRes' = [pRes EXCEPT ![r] = FALSE]
    /\ pSnap' = [pSnap EXCEPT ![r] = << >>]
    /\ pIdx' = [pIdx EXCEPT ![r] = 0]
    /\ UNCHANGED << others, live, building, wanted, pcW, nReloads >>

\* Load the live pointer once; the evaluation keeps to this snapshot.
MatchLoad(r) ==
    /\ pcP[r] = "load"
    /\ pSnap' = [pSnap EXCEPT ![r] = live]
    /\ pIdx' = [pIdx EXCEPT ![r] = 1]
    /\ pcP' = [pcP EXCEPT ![r] = "step"]
    /\ UNCHANGED << others, live, building, wanted, pcW, nReloads,
                    pHost, pRes, pSeen >>

\* Matches with no snapshot of its own: every step reads the live pointer.
ViewedLive(r) == live

\* The suffix list a reader steps through.
Viewed(r) == pSnap[r]

\* Examine one suffix of the loaded snapshot.
MatchStep(r) ==
    /\ pcP[r] = "step"
    /\ IF pIdx[r] > Len(Viewed(r))
       THEN /\ pRes' = [pRes EXCEPT ![r] = FALSE]
            /\ pcP' = [pcP EXCEPT ![r] = "done"]
            /\ UNCHANGED pIdx
       ELSE IF SuffixMatch(pHost[r], Viewed(r)[pIdx[r]])
       THEN /\ pRes' = [pRes EXCEPT ![r] = TRUE]
            /\ pcP' = [pcP EXCEPT ![r] = "done"]
            /\ UNCHANGED pIdx
       ELSE /\ pIdx' = [pIdx EXCEPT ![r] = @ + 1]
            /\ UNCHANGED << pRes, pcP >>
    /\ UNCHANGED << others, live, building, wanted, pcW, nReloads,
                    pHost, pSnap, pSeen >>

\* Reload(newSuffixes) starts on an empty new snapshot.
ReloadStart ==
    /\ pcW = "idle"
    /\ nReloads < MaxReloads
    /\ \E l \in SuffixLists : wanted' = l
    /\ building' = << >>
    /\ nReloads' = nReloads + 1
    /\ pcW' = "build"
    /\ UNCHANGED << others, live, pcP, pHost, pSnap, pIdx, pRes, pSeen >>

\* Add the next suffix to the snapshot being built.
ReloadAdd ==
    /\ pcW = "build"
    /\ Len(building) < Len(wanted)
    /\ building' = Append(building, wanted[Len(building) + 1])
    /\ UNCHANGED << others, live, wanted, pcW, nReloads,
                    pcP, pHost, pSnap, pIdx, pRes, pSeen >>

\* Publish the finished snapshot: the one atomic pointer swap.
ReloadPublish ==
    /\ pcW = "build"
    /\ Len(building) = Len(wanted)
    /\ live' = building
    /\ pSeen' = [r \in Readers |->
                    IF pcP[r] \in {"load", "step"}
                    THEN pSeen[r] \cup {building} ELSE pSeen[r]]
    /\ pcW' = "idle"
    /\ UNCHANGED << others, building, wanted, nReloads,
                    pcP, pHost, pSnap, pIdx, pRes >>

InitPolicy ==
    /\ op = "Connect"
    /\ appSpot = "app"
    /\ method = "CONNECT"
    /\ urlHost = << "h", ":", "4", "4", "3" >>
    /\ hijackable = TRUE
    /\ host = << >>
    /\ pcM = "method"
    /\ Fresh
    /\ RewriteIdle
    /\ PoolIdle
    /\ PolicyIdle

NextPolicy ==
    \/ \E r \in Readers :
          \/ MatchCall(r)
          \/ MatchLoad(r)
          \/ MatchStep(r)
    \/ ReloadStart
    \/ ReloadAdd
    \/ ReloadPublish

SpecPolicy == InitPolicy /\ [][NextPolicy]_vars

-----------------------------------------------------------------------------
(* Properties.                                                             *)

\* The downstream loop has stopped.
DownStopped == pcM \in {"info", "return", "done"}

\* Requests forwarded to the backend whose response is not yet written back.
Unacked == nfwd - nwritten

\* C1: the k-th response written to the client is the backend's response to
\* the k-th request forwarded: whenever the downstream loop is about to write
\* cresp, it holds the k-th forwarded request (k - 1 responses are written)
\* and cresp is the response to that very request.
C1_ResponseOrder ==
    pcM = "writeresp" => /\ creq.id = nwritten + 1
                         /\ cresp.id = creq.id

\* C2: no message read from the client stream or from the backend stream is
\* dropped between iterations: every request a Read of sconn delivered was
\* parsed, and every response a Read of rconn delivered was parsed.
C2_NothingDropped ==
    /\ sent = nread
    /\ nresp = cresp.id

\* C3: once Connect has returned (connections closed), the upstream goroutine
\* is not left blocked on a send to the full channel, which nobody receives
\* from any more.
C3_UpstreamNotStuck ==
    ~(pcM = "done" /\ pcU = "send" /\ ~CanSend(rch))

\* C4 as claimed: at most 8 requests are forwarded and not yet answered.
C4_AtMostQueueCap == Unacked <= QueueCap

\* C4 as amended: at most 8 + 2 requests are forwarded and not yet answered
\* (8 in the channel, one taken by the downstream loop, one written to the
\* backend by the upstream loop and not yet sent on the channel), and with
\* that many the upstream loop is blocked on the send.
C4_AtMostQueueCapPlusTwo ==
    /\ Unacked <= QueueCap + 2
    /\ Len(rch) <= QueueCap
    /\ Unacked = QueueCap + 2 => pcU = "send" /\ ~CanSend(rch)

C4_Witness ==
    /\ Unacked = QueueCap + 2
    /\ pcU = "send"
    /\ Len(rch) = QueueCap
    /\ pcM = "readresp"

\* C5: when Connect has returned, no connection it acquired is still open
\* and no deferred Close is left.
C5_AllReleased ==
    pcM = "done" => /\ conn # "open"
                    /\ rconn # "open"
                    /\ sconn # "open"
                    /\ defers = <<>>

C5_Witness ==
    /\ pcM = "done"
    /\ conn = "closed"
    /\ rconn = "closed"
    /\ sconn = "closed"
    /\ dbreak = "readerr"

\* C6: a CONNECT whose port is not 443 never gets past the port test: no
\* hijack, no dial, no 200 OK, and the only record is the port error.
C6_PortRejected ==
    LET r == SplitHostPort(urlHost)
    IN  (/\ op = "Connect" /\ method = "CONNECT"
         /\ r.err = "" /\ r.port # <<"4", "4", "3">>)
        => /\ pcM \in {"method", "split", "port", "return", "done"}
           /\ conn = "none" /\ rconn = "none" /\ sconn = "none"
           /\ ~ack
           /\ pcM \in {"return", "done"}
              => log = << [kind |-> "error",
                           msg |-> "unsupported CONNECT port"] >>

C6_Witness ==
    /\ pcM = "done"
    /\ port = <<"8", "0">>
    /\ Len(log) = 1
    /\ conn = "none"

\* C7 as claimed: every request published to the channel is taken by the
\* downstream loop: when that loop has stopped, the channel is empty.
C7_AllPublishedTaken == DownStopped => rch = <<>>

\* C7 as amended: the downstream loop sees the closure only when the channel
\* is empty; when it stopped on the closure, the upstream loop has finished
\* and every request forwarded was taken and answered.  (When it stopped on
\* a read error, a write error or a response declaring Close, requests may
\* stay in the channel.)
C7_DrainedBeforeClosure ==
    dbreak = "closed" => /\ DownStopped
                         /\ closed
                         /\ pcU = "exit"
                         /\ rch = <<>>
                         /\ nwritten = nfwd

C7_Witness ==
    /\ dbreak = "closed"
    /\ ubreak = "eof"
    /\ nfwd = QueueCap + 1
    /\ nwritten = nfwd

\* C8: a tunnel that ends gracefully (no loop met an error of a stream or of
\* a parse; the downstream loop stopped on the closure, on io.EOF of the
\* write, or on a response declaring Close) emits no error record.
C8_GracefulNoError ==
    (/\ DownStopped
     /\ dbreak \in {"closed", "writeeof", "respclose"}
     /\ ubreak \notin {"readerr", "writeerr"})
    => Errors = {}

\* The state of section 4.4 that a position of Connect belongs to.
Phase ==
    CASE pcM \in {"method", "split", "port", "hijacker", "hijack"} -> 1
      [] pcM = "dial" -> 2
      [] pcM = "ack" -> 3
      [] pcM \in {"cert", "tls", "handshake"} -> 4
      [] pcM \in {"spawn", "recv", "readresp", "writeresp"} -> 5
      [] OTHER -> 6

\* C9: Connect moves Hijacking (1), Dialing (2), Acknowledged (3),
\* Handshaking (4), Relaying (5), Closed (6) one state at a time or straight
\* to Closed; the 200 OK is written only with both connections open and
\* before the certificate is fetched; nothing is read from the client or
\* forwarded before the handshake succeeded.
C9_StateOrder ==
    /\ [][Phase' \in {Phase, Phase + 1, 6}]_vars
    /\ [](ack => conn # "none" /\ rconn # "none")
    /\ [](cert # "none" => ack)
    /\ []((pcU # "idle" \/ sent > 0 \/ nread > 0 \/ nfwd > 0) => hs = "ok")

C9_Witness ==
    /\ pcM = "writeresp"
    /\ hs = "ok"
    /\ ack
    /\ nfwd = 2

\* C10: after a Certs.Get error or a failed handshake Connect only returns:
\* one error record, no relay loop, nothing read or forwarded, no handshake
\* after a Get error, and both connections closed once it has returned.
C10_CryptoFailureTerminal ==
    (cert = "err" \/ hs = "err")
    => /\ pcM \in {"return", "done"}
       /\ Len(log) = 1 /\ Errors = {1}
       /\ pcU = "idle"
       /\ sent = 0 /\ nread = 0 /\ nfwd = 0 /\ rch = <<>>
       /\ cert = "err" => hs = "none" /\ sconn = "none"
       /\ pcM = "done" => /\ conn = "closed"
                          /\ rconn = "closed"
                          /\ sconn # "open"

C10_Witness ==
    /\ pcM = "done"
    /\ hs = "err"
    /\ sconn = "closed"
    /\ rconn = "closed"

\* The messages of the error records, and whether a record was emitted.
ErrorMsgs == {log[i].msg : i \in Errors}

Logged(kind, msg) == \E i \in 1..Len(log) : log[i] = [kind |-> kind, msg |-> msg]

\* C11: Serve called with CONNECT reports one error, posts nothing and
\* writes nothing to the client; Connect called with another method reports
\* one error and neither hijacks, dials nor writes.
C11_WrongMethodRejected ==
    /\ (op = "Serve" /\ method = "CONNECT")
       => /\ pcM \in {"serve", "return", "done"}
          /\ posted = <<>> /\ respStatus = 0
          /\ ~wHeader /\ wStatus = 0 /\ wBody = 0
          /\ pcM # "serve"
             => log = << [kind |-> "error",
                          msg |-> "this function can not handle CONNECT method"] >>
    /\ (op = "Connect" /\ method # "CONNECT")
       => /\ pcM \in {"method", "return", "done"}
          /\ conn = "none" /\ rconn = "none" /\ sconn = "none"
          /\ ~ack
          /\ pcM # "method"
             => log = << [kind |-> "error",
                          msg |-> "this function can only handle CONNECT method"] >>

C11_Witness ==
    /\ op = "Serve"
    /\ method = "CONNECT"
    /\ pcM = "done"
    /\ Len(log) = 1

\* Requests the downstream loop took from the channel, requests sent on the
\* channel, and responses ReadResponse returned.
Dequeued == creq.id

Enqueued == creq.id + Len(rch)

RespRead ==
    nwritten + IF pcM = "writeresp" \/ dbreak \in {"writeeof", "writeerr"}
               THEN 1 ELSE 0

\* C14: responses read <= requests dequeued <= requests enqueued <= requests
\* written to the backend; the channel holds only requests that were
\* written, and the downstream loop only waits for the response to a request
\* that was written.
C14_PublishedAfterWritten ==
    /\ RespRead <= Dequeued
    /\ Dequeued <= Enqueued
    /\ Enqueued <= nfwd
    /\ \A i \in 1..Len(rch) : rch[i].id <= nfwd
    /\ pcM = "readresp" => creq.id >= 1 /\ creq.id <= nfwd
    /\ ubreak \in {"writeerr", "writeclosed"}
       => creqU.id = nfwd + 1 /\ Enqueued <= nfwd

C14_Witness ==
    /\ ubreak = "writeerr"
    /\ nfwd = 2
    /\ Enqueued = 2
    /\ pcM = "readresp"

\* C15 as claimed: the response to a request declaring Close is read and
\* written back: when both loops have stopped after the closing request was
\* published, every forwarded request has its response written.
C15_ClosingRequestAnswered ==
    (ubreak = "reqclose" /\ DownStopped) => nwritten = nfwd

\* C15 as amended: a request declaring Close that was written to the backend
\* is published, then the upstream loop stops and closes the channel and
\* never reads again; if the downstream loop stops on the closure, the
\* closing request was taken and its own response written.  (If the
\* downstream loop stops earlier, that response is not read.)
C15_CloseRequestEndsUpstream ==
    /\ pcU = "read" => ~creqU.close
    /\ (pcU = "exit" /\ creqU.close)
       => ubreak \in {"reqclose", "writeerr", "writeclosed"}
    /\ ubreak = "reqclose"
       => /\ pcU = "exit" /\ closed
          /\ creqU.close
          /\ creqU.id = nfwd /\ nread = nfwd
          /\ Enqueued = nfwd
          /\ dbreak = "closed"
             => /\ nwritten = nfwd
                /\ creq = creqU
                /\ cresp.id = creqU.id

C15_Witness ==
    /\ ubreak = "reqclose"
    /\ dbreak = "closed"
    /\ nfwd = 3
    /\ pcM = "done"

\* C16: after the downstream loop has written a response declaring Close, no
\* task of the tunnel reads from or writes to either connection.
C16_QuietAfterResponseClose ==
    [][dbreak = "respclose"
       => /\ sent' = sent /\ nread' = nread
          /\ nfwd' = nfwd
          /\ nresp' = nresp /\ nwritten' = nwritten]_vars

\* C18: when Connect has returned, the upstream goroutine has terminated (or
\* was never started).
C18_UpstreamJoined ==
    (op = "Connect" /\ pcM = "done") => pcU \in {"idle", "exit"}

\* C19: after a failed Dial Connect only returns: one error record, nothing
\* written to the client connection, no certificate, no TLS, no relay, and
\* the hijacked connection closed once it has returned.
C19_DialFailureTerminal ==
    Logged("error", "Dial")
    => /\ log = << [kind |-> "error", msg |-> "Dial"] >>
       /\ pcM \in {"return", "done"}
       /\ ~ack
       /\ cert = "none" /\ hs = "none" /\ sconn = "none"
       /\ rconn = "none"
       /\ pcU = "idle" /\ nread = 0 /\ nfwd = 0
       /\ conn # "none"
       /\ pcM = "done" => conn = "closed"

C19_Witness ==
    /\ pcM = "done"
    /\ log = << [kind |-> "error", msg |-> "Dial"] >>
    /\ conn = "closed"
    /\ rconn = "none"

\* C20: in Serve a failure to serialize, to post or to parse the embedded
\* response, or a 500 of the relay, is the only record, with nothing written
\* to the client; header and status are written only after the embedded
\* response was parsed; RESPONSE follows only a complete copy without error.
C20_ServeFailureTerminal ==
    op = "Serve"
    => /\ Cardinality(Errors) <= 1
       /\ ErrorMsgs \cap {"WriteProxy", "Post", "Status", "ReadResponse"} # {}
          => /\ Len(log) = 1
             /\ pcM \in {"return", "done"}
             /\ ~wHeader /\ wStatus = 0 /\ wBody = 0
       /\ (respStatus = StatusInternalServerError /\ pcM # "s_status")
          => Logged("error", "Status")
       /\ (wHeader \/ wStatus # 0 \/ wBody > 0)
          => /\ cresStatus # 0
             /\ wHeader /\ wStatus = cresStatus
       /\ Logged("info", "RESPONSE")
          => /\ Errors = {}
             /\ wHeader /\ wBody = bodyLen

C20_Witness ==
    /\ op = "Serve"
    /\ pcM = "done"
    /\ respStatus = StatusInternalServerError
    /\ Len(log) = 1
    /\ ~wHeader

\* The wire form of "https://" + H + T for the request in hand.
Rewritten == << "https://" >> \o host \o rq.target

\* C17: a request written to the backend has the target "https://" + H + T,
\* H the host of the CONNECT and T the target the client sent, whatever the
\* request's own Host header, and carries Mallory-Session equal to the
\* decimal Session ID.
C17_ForwardedTarget ==
    pcR = "written" =>
        /\ wire.target = Rewritten
        /\ wire.session = Dec(sid)

\* Another caller is inside the check-then-generate sequence of c's host.
SameHostBusy(c) ==
    \E d \in Callers \ {c} : gHost[d] = gHost[c] /\ pcG[d] \in Critical

\* C12: at most one certificate is generated per host, every Get for the
\* host that returns a certificate returns that one, the cached one, and a
\* caller about to enter Get's exclusion waits exactly when another caller
\* of the same host is inside it, never for a caller of another host.
C12_SameCertPerHost ==
    /\ \A h \in PoolHosts :
          /\ generated[h] <= 1
          /\ Cardinality(returned[h]) <= 1
          /\ returned[h] # {} => returned[h] = {cache[h]}
    /\ \A c \in Callers :
          pcG[c] = "lock" => (ENABLED GetLock(c) <=> ~SameHostBusy(c))

\* A Get is about to return the certificate an earlier Get for the same
\* host has returned, a second caller waits for that host, and a third is
\* inside Get for another host.
C12_Witness ==
    \E c, d, e \in Callers :
        /\ pcG[c] = "unlock"
        /\ gCert[c] = 1
        /\ returned[gHost[c]] = {1}
        /\ pcG[d] = "lock"
        /\ gHost[d] = gHost[c]
        /\ gHost[e] \in PoolHosts \ {gHost[c]}
        /\ pcG[e] \in Critical

\* C13: the value a Matches call returns is the value of Matches against
\* one whole snapshot that was live during the call, and a call in flight
\* always has its next step enabled, whatever Reload is doing.
C13_ReloadAtomic ==
    \A r \in Readers :
        /\ pcP[r] = "done" =>
              \E snap \in pSeen[r] : pRes[r] = MatchesIn(snap, pHost[r])
        /\ pcP[r] = "load" => ENABLED MatchLoad(r)
        /\ pcP[r] = "step" => ENABLED MatchStep(r)

\* A call returned after a Reload published a different snapshot during it,
\* the old and the new snapshot disagreeing about the host.
C13_Witness ==
    \E r \in Readers :
        /\ pcP[r] = "done"
        /\ Cardinality(pSeen[r]) = 2
        /\ \E a, b \in pSeen[r] :
              MatchesIn(a, pHost[r]) /\ ~MatchesIn(b, pHost[r])

====
